---- MODULE Spec2Model ----
(***************************************************************************)
(* Model of jupyterhub/oauth/store.py: the three database-backed OAuth2    *)
(* stores (AccessTokenStore, AuthCodeStore, ClientStore), the hashed       *)
(* secret wrapper (HashComparable), the site adapter and the provider      *)
(* wiring of make_provider.                                                *)
(*                                                                         *)
(* The database is the committed content of three tables.  Every store     *)
(* method runs its queries and ends its transaction (commit, or rollback   *)
(* in the except branch) before it returns, so a store method is one step  *)
(* on the committed tables; add_client runs two transactions and is two    *)
(* steps.  A commit or a guarded query may fail (the code's try/except     *)
(* branches); the failure is an input of the step.                         *)
(***************************************************************************)
EXTENDS Integers, Sequences, FiniteSets, TLC

\* ---------------------------------------------------------------- bounds
NumProcs == 2        \* concurrent requests (token exchanges, add_client calls)
MaxCodes == 2        \* values the token generator yields as codes
MaxTokens == 2       \* values the token generator yields as access tokens
Now == 1             \* the time of the run

Procs == 1..NumProcs
Codes == 1..MaxCodes
Tokens == 1..MaxTokens
Expiries == {Now - 1, Now + 1}        \* an expires_at before Now and one after

\* the values callers use
Users == {"u1"}                        \* ids of the rows of orm.User
UserIds == Users \cup {"u0"}           \* "u0" is no user's id
ClientIds == {"c1"}
Secrets == {"secret1", "secret2"}
Uris == {"https://app.example/cb"}

None == [kind |-> "None"]

VARIABLES
    oauth_clients,        \* table orm.OAuthClient: set of rows, keyed by identifier
    oauth_codes,          \* table orm.OAuthCode: set of rows, keyed by code
    oauth_access_tokens,  \* table orm.OAuthAccessToken: set of rows, keyed by token
    next_code,            \* token generator: next code value
    next_token,           \* token generator: next access token value
    pc,                   \* position of each request
    req,                  \* each request's local variables
    last,                 \* the call that ran last and how it ended
    issued,               \* history: codes handed out by authorize, in order
    consumed,             \* history: codes delete_code returned normally for since their last save
    granted,              \* history: (code, token) of every exchange that answered with a token
    registered            \* history: per identifier, the add_client arguments its row was built from

vars == <<oauth_clients, oauth_codes, oauth_access_tokens, next_code, next_token,
          pc, req, last, issued, consumed, granted, registered>>

\* ------------------------------------------------- token hashing (utils)
\* hash_token: deterministic one-way digest; the digest is never the plaintext.
hash_token(plaintext) == <<"digest", plaintext>>

\* compare_token: TRUE iff the candidate hashes to the stored digest; never raises.
compare_token(stored, candidate) == stored = hash_token(candidate)

\* --------------------------------------------------------- HashComparable
HashComparable(hashed_token) == [hashed_token |-> hashed_token]

\* mutant: every candidate compares equal
HashComparable_eq_any(self, other) == self.hashed_token = self.hashed_token

HashComparable_eq(self, other) == compare_token(self.hashed_token, other)

\* ------------------------------------------------------------ site adapter
\* mutant: no session user does not raise
authenticate_anonymous(user) ==
    [exc |-> "none", extra |-> <<>>,
     user_id |-> IF user # None THEN user.id ELSE "u0"]

\* handler.get_current_user() is None or a user; a user is truthy.
authenticate(user) ==
    IF user # None
    THEN [exc |-> "none", extra |-> <<>>, user_id |-> user.id]
    ELSE [exc |-> "UserNotAuthenticated", extra |-> <<>>, user_id |-> "u0"]

render_auth_page(path) ==
    [status_code |-> 302, Location |-> <<"login_url", "?next=", path>>]

user_has_denied_access == FALSE

\* ------------------------------------------------------- record builders
AccessToken(client_id, token, user_id) ==
    [client_id |-> client_id, grant_type |-> "authorization_code",
     expires_at |-> Now + 1, refresh_token |-> None, refresh_expires_at |-> None,
     token |-> token, user_id |-> user_id]

AuthorizationCode(client_id, code, expires_at, redirect_uri, user_id) ==
    [client_id |-> client_id, code |-> code, expires_at |-> expires_at,
     redirect_uri |-> redirect_uri, scopes |-> <<>>, user_id |-> user_id]

Client(identifier, redirect_uris, secret) ==
    [identifier |-> identifier, redirect_uris |-> redirect_uris, secret |-> secret]

\* what a store method hands back: the table after it, the exception it raised
\* ("none": it returned normally), whether it rolled back, and its return value
Outcome(table, exc, rollback, value) ==
    [table |-> table, exc |-> exc, rollback |-> rollback, value |-> value]

\* ------------------------------------------------------------- the tables
\* commit of an INSERT fails when the key is taken (the tables are keyed by
\* token, code and identifier), or when the database fails (commit_fails)
token_taken(table, token) == \E r \in table : r.token = token
code_taken(table, code) == \E r \in table : r.code = code
identifier_taken(table, identifier) == \E r \in table : r.identifier = identifier

\* query(...).filter(key == k).first(): the row, or None
first_code(table, code) ==
    IF code_taken(table, code) THEN CHOOSE r \in table : r.code = code ELSE None

first_client(table, identifier) ==
    IF identifier_taken(table, identifier)
    THEN CHOOSE r \in table : r.identifier = identifier
    ELSE None

first_user(user_id) == IF user_id \in Users THEN [id |-> user_id] ELSE None

\* ------------------------------------------------------- AccessTokenStore
\* mutant: the missing-user check is left out
save_token_unchecked(table, access_token, commit_fails) ==
    IF commit_fails \/ token_taken(table, access_token.token)
    THEN Outcome(table, "none", TRUE, None)
    ELSE Outcome(table \cup {[client_id |-> access_token.client_id,
                              grant_type |-> access_token.grant_type,
                              expires_at |-> access_token.expires_at,
                              refresh_token |-> access_token.refresh_token,
                              refresh_expires_at |-> access_token.refresh_expires_at,
                              token |-> access_token.token,
                              user_id |-> access_token.user_id]},
                 "none", FALSE, None)

\* mutant: the user's earlier rows are replaced by the new one
save_token_replaces(table, access_token, commit_fails) ==
    LET user == first_user(access_token.user_id)
        orm_access_token ==
            [client_id |-> access_token.client_id,
             grant_type |-> access_token.grant_type,
             expires_at |-> access_token.expires_at,
             refresh_token |-> access_token.refresh_token,
             refresh_expires_at |-> access_token.refresh_expires_at,
             token |-> access_token.token,
             user_id |-> access_token.user_id]
    IN  IF user = None
        THEN Outcome(table, "ValueError", FALSE, None)
        ELSE IF commit_fails \/ token_taken(table, access_token.token)
        THEN Outcome(table, "none", TRUE, None)
        ELSE Outcome({r \in table : r.user_id # access_token.user_id}
                         \cup {orm_access_token},
                     "none", FALSE, None)

save_token(table, access_token, commit_fails) ==
    LET user == first_user(access_token.user_id)
        orm_access_token ==
            [client_id |-> access_token.client_id,
             grant_type |-> access_token.grant_type,
             expires_at |-> access_token.expires_at,
             refresh_token |-> access_token.refresh_token,
             refresh_expires_at |-> access_token.refresh_expires_at,
             token |-> access_token.token,
             user_id |-> access_token.user_id]
    IN  IF user = None
        THEN Outcome(table, "ValueError", FALSE, None)
        ELSE IF commit_fails \/ token_taken(table, access_token.token)
        THEN Outcome(table, "none", TRUE, None)
        ELSE Outcome(table \cup {orm_access_token}, "none", FALSE, None)

\* ---------------------------------------------------------- AuthCodeStore
\* mutant: the row that is fetched is deleted, the code is used up by the fetch
fetch_by_code_consumes(table, code, query_fails) ==
    LET orm_code == first_code(table, code)
    IN  IF query_fails
        THEN Outcome(table, "UnboundLocalError", TRUE, None)
        ELSE IF orm_code = None
        THEN Outcome(table, "AuthCodeNotFound", FALSE, None)
        ELSE Outcome(table \ {orm_code}, "none", FALSE,
                     AuthorizationCode(orm_code.client_id, code, orm_code.expires_at,
                                       orm_code.redirect_uri, orm_code.user_id))

\* mutant: a row whose expires_at has passed counts as not found
fetch_by_code_checks_expiry(table, code, query_fails) ==
    LET orm_code == first_code(table, code)
    IN  IF query_fails
        THEN Outcome(table, "UnboundLocalError", TRUE, None)
        ELSE IF orm_code = None \/ orm_code.expires_at < Now
        THEN Outcome(table, "AuthCodeNotFound", FALSE, None)
        ELSE Outcome(table, "none", FALSE,
                     AuthorizationCode(orm_code.client_id, code, orm_code.expires_at,
                                       orm_code.redirect_uri, orm_code.user_id))

\* mutant: the query is not filtered by the code, any row is taken
fetch_by_code_any_row(table, code, query_fails) ==
    LET orm_code == IF table # {} THEN CHOOSE r \in table : TRUE ELSE None
    IN  IF query_fails
        THEN Outcome(table, "UnboundLocalError", TRUE, None)
        ELSE IF orm_code = None
        THEN Outcome(table, "AuthCodeNotFound", FALSE, None)
        ELSE Outcome(table, "none", FALSE,
                     AuthorizationCode(orm_code.client_id, code, orm_code.expires_at,
                                       orm_code.redirect_uri, orm_code.user_id))

\* a failing query is caught and rolled back; orm_code is then unbound and
\* the log line that reads it raises UnboundLocalError
fetch_by_code(table, code, query_fails) ==
    LET orm_code == first_code(table, code)
    IN  IF query_fails
        THEN Outcome(table, "UnboundLocalError", TRUE, None)
        ELSE IF orm_code = None
        THEN Outcome(table, "AuthCodeNotFound", FALSE, None)
        ELSE Outcome(table, "none", FALSE,
                     AuthorizationCode(orm_code.client_id, code, orm_code.expires_at,
                                       orm_code.redirect_uri, orm_code.user_id))

\* mutant: the row is built without the code
save_code_without_code(table, authorization_code, commit_fails) ==
    IF commit_fails \/ code_taken(table, authorization_code.code)
    THEN Outcome(table, "none", TRUE, None)
    ELSE Outcome(table \cup {[client_id |-> authorization_code.client_id,
                              code |-> 0,
                              expires_at |-> authorization_code.expires_at,
                              user_id |-> authorization_code.user_id,
                              redirect_uri |-> authorization_code.redirect_uri]},
                 "none", FALSE, None)

save_code(table, authorization_code, commit_fails) ==
    LET orm_code ==
            [client_id |-> authorization_code.client_id,
             code |-> authorization_code.code,
             expires_at |-> authorization_code.expires_at,
             user_id |-> authorization_code.user_id,
             redirect_uri |-> authorization_code.redirect_uri]
    IN  IF commit_fails \/ code_taken(table, authorization_code.code)
        THEN Outcome(table, "none", TRUE, None)
        ELSE Outcome(table \cup {orm_code}, "none", FALSE, None)

delete_code(table, code, commit_fails) ==
    LET orm_code == first_code(table, code)
    IN  IF orm_code = None
        THEN Outcome(table, "none", FALSE, None)
        ELSE IF commit_fails
        THEN Outcome(table, "none", TRUE, None)
        ELSE Outcome(table \ {orm_code}, "none", FALSE, None)

\* ------------------------------------------------------------ ClientStore
\* mutant: a missing row does not raise, a Client without redirect URIs is built
fetch_by_client_id_no_raise(table, client_id, query_fails) ==
    LET orm_client == first_client(table, client_id)
    IN  IF query_fails
        THEN Outcome(table, "UnboundLocalError", TRUE, None)
        ELSE IF orm_client = None
        THEN Outcome(table, "none", FALSE,
                     Client(client_id, <<>>, HashComparable(hash_token(""))))
        ELSE Outcome(table, "none", FALSE,
                     Client(client_id, <<orm_client.redirect_uri>>,
                            HashComparable(orm_client.secret)))

fetch_by_client_id(table, client_id, query_fails) ==
    LET orm_client == first_client(table, client_id)
    IN  IF query_fails
        THEN Outcome(table, "UnboundLocalError", TRUE, None)
        ELSE IF orm_client = None
        THEN Outcome(table, "ClientNotFoundError", FALSE, None)
        ELSE Outcome(table, "none", FALSE,
                     Client(client_id, <<orm_client.redirect_uri>>,
                            HashComparable(orm_client.secret)))

\* add_client, first transaction: delete every row of the identifier, commit.
\* When it fails the except branch rolls back and the last log line reads the
\* unbound orm_client.
add_client_clear(table, client_id, fails) ==
    IF fails
    THEN Outcome(table, "UnboundLocalError", TRUE, None)
    ELSE Outcome({r \in table : r.identifier # client_id}, "none", FALSE, None)

\* mutant: the identifier is hashed in place of the secret
add_client_insert_wrong_hash(table, client_id, client_secret, redirect_uri, commit_fails) ==
    IF commit_fails \/ identifier_taken(table, client_id)
    THEN Outcome(table, "none", TRUE, None)
    ELSE Outcome(table \cup {[identifier |-> client_id, secret |-> hash_token(client_id),
                              redirect_uri |-> redirect_uri]},
                 "none", FALSE, None)

\* add_client, second transaction: insert the row with the hashed secret, commit.
add_client_insert(table, client_id, client_secret, redirect_uri, commit_fails) ==
    LET orm_client ==
            [identifier |-> client_id, secret |-> hash_token(client_secret),
             redirect_uri |-> redirect_uri]
    IN  IF commit_fails \/ identifier_taken(table, client_id)
        THEN Outcome(table, "none", TRUE, None)
        ELSE Outcome(table \cup {orm_client}, "none", FALSE, None)

\* ------------------------------------------------------------------ state
Call(op, arg, out) ==
    [op |-> op, arg |-> arg, exc |-> out.exc, rollback |-> out.rollback,
     value |-> out.value]

NoReq == [code |-> 0, auth |-> None, repeat |-> FALSE, client_id |-> "",
          client_secret |-> "", redirect_uri |-> "", replaces |-> FALSE]

Init ==
    /\ oauth_clients = {}
    /\ oauth_codes = {}
    /\ oauth_access_tokens = {}
    /\ next_code = 1
    /\ next_token = 1
    /\ pc = [p \in Procs |-> "idle"]
    /\ req = [p \in Procs |-> NoReq]
    /\ last = Call("init", None, Outcome({}, "none", FALSE, None))
    /\ issued = <<>>
    /\ consumed = {}
    /\ granted = {}
    /\ registered = [c \in ClientIds |-> None]

\* token_generator=UUID4(): a value that was never generated before
token_generator(next) == next

\* ------------------------------------------- calls of the store methods
FetchByCode(code, query_fails) ==
    LET out == fetch_by_code(oauth_codes, code, query_fails)
    IN  /\ oauth_codes' = out.table
        /\ last' = Call("fetch_by_code", [code |-> code], out)
        /\ UNCHANGED <<oauth_clients, oauth_access_tokens, next_code, next_token,
                       pc, req, issued, consumed, granted, registered>>

SaveCode(authorization_code, commit_fails) ==
    LET out == save_code(oauth_codes, authorization_code, commit_fails)
    IN  /\ oauth_codes' = out.table
        /\ consumed' = consumed \ {authorization_code.code}
        /\ last' = Call("save_code", [code |-> authorization_code.code], out)
        /\ UNCHANGED <<oauth_clients, oauth_access_tokens, next_code, next_token,
                       pc, req, issued, granted, registered>>

DeleteCode(code, commit_fails) ==
    LET out == delete_code(oauth_codes, code, commit_fails)
    IN  /\ oauth_codes' = out.table
        /\ consumed' = IF code_taken(oauth_codes, code) /\ out.exc = "none"
                       THEN consumed \cup {code} ELSE consumed
        /\ last' = Call("delete_code", [code |-> code], out)
        /\ UNCHANGED <<oauth_clients, oauth_access_tokens, next_code, next_token,
                       pc, req, issued, granted, registered>>

SaveToken(access_token, commit_fails) ==
    LET out == save_token(oauth_access_tokens, access_token, commit_fails)
    IN  /\ oauth_access_tokens' = out.table
        /\ last' = Call("save_token", [token |-> access_token.token,
                                       user_id |-> access_token.user_id], out)
        /\ UNCHANGED <<oauth_clients, oauth_codes, next_code, next_token, pc, req,
                       issued, consumed, granted, registered>>

FetchByClientId(client_id, query_fails) ==
    LET out == fetch_by_client_id(oauth_clients, client_id, query_fails)
    IN  /\ oauth_clients' = out.table
        /\ last' = Call("fetch_by_client_id", [client_id |-> client_id], out)
        /\ UNCHANGED <<oauth_codes, oauth_access_tokens, next_code, next_token,
                       pc, req, issued, consumed, granted, registered>>

\* add_client up to its first commit
AddClientClear(p, client_id, client_secret, redirect_uri, fails) ==
    LET out == add_client_clear(oauth_clients, client_id, fails)
        arg == [client_id |-> client_id, client_secret |-> client_secret,
                redirect_uri |-> redirect_uri,
                replaces |-> identifier_taken(oauth_clients, client_id)]
    IN  /\ pc[p] = "idle"
        /\ oauth_clients' = out.table
        /\ IF out.exc = "none"
           THEN /\ pc' = [pc EXCEPT ![p] = "add_client"]
                /\ req' = [req EXCEPT ![p] =
                              [NoReq EXCEPT !.client_id = client_id,
                                            !.client_secret = client_secret,
                                            !.redirect_uri = redirect_uri,
                                            !.replaces = arg.replaces]]
                /\ registered' = [registered EXCEPT ![client_id] = None]
                /\ last' = Call("add_client_clear", arg, out)
           ELSE /\ UNCHANGED <<pc, req, registered>>
                /\ last' = Call("add_client", arg, out)
        /\ UNCHANGED <<oauth_codes, oauth_access_tokens, next_code, next_token,
                       issued, consumed, granted>>

\* add_client from its first commit to its return
AddClientInsert(p, commit_fails) ==
    LET r == req[p]
        out == add_client_insert(oauth_clients, r.client_id, r.client_secret,
                                 r.redirect_uri, commit_fails)
        arg == [client_id |-> r.client_id, client_secret |-> r.client_secret,
                redirect_uri |-> r.redirect_uri, replaces |-> r.replaces]
    IN  /\ pc[p] = "add_client"
        /\ oauth_clients' = out.table
        /\ pc' = [pc EXCEPT ![p] = "idle"]
        /\ req' = [req EXCEPT ![p] = NoReq]
        /\ registered' = IF out.rollback THEN registered
                         ELSE [registered EXCEPT ![r.client_id] = arg]
        /\ last' = Call("add_client", arg, out)
        /\ UNCHANGED <<oauth_codes, oauth_access_tokens, next_code, next_token,
                       issued, consumed, granted>>

\* ------------------------------------------------ the provider's two flows
SessionUsers == {None} \cup {[id |-> u] : u \in Users}

\* GET authorize: look the client up, authenticate the session user, then
\* generate a code, save it and redirect to the client with it
Authorize(client_id, redirect_uri, user, query_fails, commit_fails) ==
    LET c == fetch_by_client_id(oauth_clients, client_id, query_fails)
        a == authenticate(user)
        code == token_generator(next_code)
        out == save_code(oauth_codes,
                         AuthorizationCode(client_id, code, Now + 1, redirect_uri,
                                           a.user_id),
                         commit_fails)
        arg == [client_id |-> client_id, user |-> user]
    IN  /\ next_code <= MaxCodes
        /\ IF c.exc # "none"
           THEN /\ last' = Call("authorize", arg, Outcome({}, c.exc, c.rollback, None))
                /\ UNCHANGED <<oauth_codes, next_code, issued>>
           ELSE IF a.exc # "none"
           THEN /\ last' = Call("authorize", arg,
                                Outcome({}, a.exc, FALSE, render_auth_page("authorize")))
                /\ UNCHANGED <<oauth_codes, next_code, issued>>
           ELSE /\ oauth_codes' = out.table
                /\ next_code' = next_code + 1
                /\ issued' = Append(issued, code)
                /\ last' = Call("authorize", arg,
                                Outcome({}, out.exc, out.rollback,
                                        [code |-> code, user_id |-> a.user_id,
                                         extra |-> a.extra]))
        /\ oauth_clients' = c.table
        /\ UNCHANGED <<oauth_access_tokens, next_token, pc, req, consumed, granted,
                       registered>>

\* POST token, first part: check the client's secret, fetch the code
TokenRequest(p, code, client_id, client_secret, client_query_fails, code_query_fails) ==
    LET c == fetch_by_client_id(oauth_clients, client_id, client_query_fails)
        f == fetch_by_code(oauth_codes, code, code_query_fails)
        arg == [code |-> code, client_secret |-> client_secret]
    IN  /\ pc[p] = "idle"
        /\ oauth_clients' = c.table
        /\ IF c.exc # "none"
           THEN /\ last' = Call("token", arg, Outcome({}, c.exc, c.rollback, None))
                /\ UNCHANGED <<oauth_codes, pc, req>>
           ELSE IF ~HashComparable_eq(c.value.secret, client_secret)
           THEN /\ last' = Call("token", arg, Outcome({}, "InvalidClient", FALSE, None))
                /\ UNCHANGED <<oauth_codes, pc, req>>
           ELSE IF f.exc # "none"
           THEN /\ last' = Call("token", arg, Outcome({}, f.exc, f.rollback, None))
                /\ oauth_codes' = f.table
                /\ UNCHANGED <<pc, req>>
           ELSE IF f.value.expires_at < Now
           THEN /\ last' = Call("token", arg, Outcome({}, "Expired", FALSE, None))
                /\ oauth_codes' = f.table
                /\ UNCHANGED <<pc, req>>
           ELSE /\ last' = Call("fetch_by_code", [code |-> code], f)
                /\ oauth_codes' = f.table
                /\ pc' = [pc EXCEPT ![p] = "fetched"]
                /\ req' = [req EXCEPT ![p] =
                              [NoReq EXCEPT !.code = code, !.auth = f.value,
                                            !.repeat = code \in {g[1] : g \in granted},
                                            !.client_id = client_id,
                                            !.client_secret = client_secret]]
        /\ UNCHANGED <<oauth_access_tokens, next_code, next_token, issued, consumed,
                       granted, registered>>

\* POST token, second part: delete the code
ExchangeDelete(p, commit_fails) ==
    LET code == req[p].code
        out == delete_code(oauth_codes, code, commit_fails)
    IN  /\ pc[p] = "fetched"
        /\ oauth_codes' = out.table
        /\ consumed' = IF code_taken(oauth_codes, code) /\ out.exc = "none"
                       THEN consumed \cup {code} ELSE consumed
        /\ pc' = [pc EXCEPT ![p] = "deleted"]
        /\ last' = Call("delete_code", [code |-> code], out)
        /\ UNCHANGED <<oauth_clients, oauth_access_tokens, next_code, next_token,
                       req, issued, granted, registered>>

\* POST token, last part: generate the access token, save it, answer with it
ExchangeSave(p, commit_fails) ==
    LET auth == req[p].auth
        token == token_generator(next_token)
        out == save_token(oauth_access_tokens,
                          AccessToken(auth.client_id, token, auth.user_id),
                          commit_fails)
    IN  /\ pc[p] = "deleted"
        /\ next_token <= MaxTokens
        /\ oauth_access_tokens' = out.table
        /\ next_token' = next_token + 1
        /\ granted' = IF out.exc = "none"
                      THEN granted \cup {<<req[p].code, token>>} ELSE granted
        /\ pc' = [pc EXCEPT ![p] = "idle"]
        /\ req' = [req EXCEPT ![p] = NoReq]
        /\ last' = Call("token", [code |-> req[p].code, token |-> token,
                                  repeat |-> req[p].repeat], out)
        /\ UNCHANGED <<oauth_clients, oauth_codes, next_code, issued, consumed,
                       registered>>

\* ------------------------------------------------------ specifications
\* F: what the database may do to a commit or a guarded query
\*    (FALSE: it goes through, TRUE: it fails).  P: the requests that run.
StoreCalls(F) ==
    \/ \E code \in Codes, f \in F : FetchByCode(code, f)
    \/ \E code \in Codes, client_id \in ClientIds, redirect_uri \in Uris,
          user_id \in Users, expires_at \in Expiries, f \in F :
          SaveCode(AuthorizationCode(client_id, code, expires_at, redirect_uri,
                                     user_id), f)
    \/ \E code \in Codes, f \in F : DeleteCode(code, f)
    \/ \E token \in Tokens, client_id \in ClientIds, user_id \in UserIds, f \in F :
          SaveToken(AccessToken(client_id, token, user_id), f)
    \/ \E client_id \in ClientIds, f \in F : FetchByClientId(client_id, f)

Registration(P, F) ==
    \/ \E p \in P, client_id \in ClientIds, client_secret \in Secrets,
          redirect_uri \in Uris, f \in F :
          AddClientClear(p, client_id, client_secret, redirect_uri, f)
    \/ \E p \in P, f \in F : AddClientInsert(p, f)

Grant(P, F) ==
    \/ \E client_id \in ClientIds, redirect_uri \in Uris, user \in SessionUsers,
          f \in F, g \in F :
          Authorize(client_id, redirect_uri, user, f, g)
    \/ \E p \in P, code \in Codes, client_id \in ClientIds, client_secret \in Secrets,
          f \in F, g \in F :
          TokenRequest(p, code, client_id, client_secret, f, g)
    \/ \E p \in P, f \in F : ExchangeDelete(p, f)
    \/ \E p \in P, f \in F : ExchangeSave(p, f)

\* the store methods called one after another, in any order and with any
\* arguments, commits and guarded queries failing at will
Next == StoreCalls(BOOLEAN) \/ Registration({1}, BOOLEAN)

Spec == Init /\ [][Next]_vars

\* the provider's flows over the stores (registrations, authorize requests,
\* token exchanges) run concurrently on a database that never fails
NextRace == Registration(Procs, {FALSE}) \/ Grant(Procs, {FALSE})

SpecRace == Init /\ [][NextRace]_vars

\* the same flows run one request at a time, commits and guarded queries
\* failing at will
NextSeq == Registration({1}, BOOLEAN) \/ Grant({1}, BOOLEAN)

SpecSeq == Init /\ [][NextSeq]_vars

\* ------------------------------------------------------------ the claims
\* the access token rows that exchanges of code c answered with
TokensFor(c) == {t \in oauth_access_tokens : <<c, t.token>> \in granted}

\* C1 (as claimed): of the concurrent exchanges of one code at most one gets
\* past fetch_by_code (the others observe AuthCodeNotFound), so at most one
\* access token is ever persisted for a code.
C1_OneTokenPerCode == \A c \in Codes : Cardinality(TokensFor(c)) <= 1

\* C2 (as claimed): once delete_code has returned for a saved code, and until
\* the code is saved again, a fetch_by_code of it (one whose query the
\* database answers) raises AuthCodeNotFound and returns no AuthorizationCode.
C2_FetchAfterDeleteFails ==
    (last.op = "fetch_by_code" /\ last.arg.code \in consumed /\ ~last.rollback)
        => (last.exc = "AuthCodeNotFound" /\ last.value = None)

\* C3 (as claimed): run one request at a time, a token exchange of a code
\* that an earlier exchange was answered a token for is rejected before it
\* gets past fetch_by_code, and no code has two access tokens persisted.
C3_RepeatedExchangeFails ==
    /\ \A p \in Procs : pc[p] \in {"fetched", "deleted"} => ~req[p].repeat
    /\ \A c \in Codes : Cardinality(TokensFor(c)) < 2

WriteOps == {"save_token", "save_code", "delete_code", "add_client"}

\* C4 (as claimed): a write method whose transaction was rolled back does not
\* return normally: it raises to its caller.
C4_RollbackIsReported ==
    (last.op \in WriteOps /\ last.rollback) => last.exc # "none"

\* C5 (as claimed): save_token for a user_id that matches no user fails with
\* UserNotFound.
C5_FailsWithUserNotFound ==
    (last.op = "save_token" /\ last.arg.user_id \notin Users)
        => last.exc = "UserNotFound"

\* C5 (amended): save_token for a user_id that matches no user raises
\* ValueError, the store's own error and not one of the database, and the
\* access token rows are the same after the call as before it.
C5_ValueErrorAndNoRow ==
    [][(last'.op = "save_token" /\ last'.arg.user_id \notin Users)
          => (/\ last'.exc = "ValueError"
              /\ ~last'.rollback
              /\ oauth_access_tokens' = oauth_access_tokens)]_vars

\* C5 witness: save_token was called for a missing user while rows were stored
C5_Witness ==
    /\ last.op = "save_token"
    /\ last.arg.user_id \notin Users
    /\ last.exc = "ValueError"
    /\ oauth_access_tokens # {}

\* what a caller comparing candidate plaintexts against a client's secret sees
Candidates == Secrets \cup {"", "secret0"}

\* C6 (as claimed): when add_client returns for an identifier that had a
\* client, fetch_by_client_id returns a Client whose only redirect URI is the
\* one of this call and whose secret equals just this call's plaintext secret.
C6_SecondCallReplaces ==
    (last.op = "add_client" /\ last.exc = "none" /\ last.arg.replaces)
        => LET r == fetch_by_client_id(oauth_clients, last.arg.client_id, FALSE)
           IN  /\ r.exc = "none"
               /\ r.value.redirect_uris = <<last.arg.redirect_uri>>
               /\ \A s \in Candidates :
                      HashComparable_eq(r.value.secret, s) <=> s = last.arg.client_secret

\* C7 (as claimed): however add_client calls interleave, an identifier has at
\* most one client row, and when an add_client returns the row is the one of
\* that call, the last registration.
C7_LastRegistrationWins ==
    /\ \A c \in ClientIds :
           Cardinality({r \in oauth_clients : r.identifier = c}) <= 1
    /\ (last.op = "add_client" /\ last.exc = "none")
           => oauth_clients =
                  {r \in oauth_clients : r.identifier # last.arg.client_id}
                  \cup {[identifier |-> last.arg.client_id,
                         secret |-> hash_token(last.arg.client_secret),
                         redirect_uri |-> last.arg.redirect_uri]}

\* C8: the secret of the Client that fetch_by_client_id returns compares equal
\* to the plaintext the client was registered with and to no other candidate.
C8_SecretComparesToPlaintext ==
    (last.op = "fetch_by_client_id" /\ last.exc = "none")
        => /\ registered[last.arg.client_id] # None
           /\ \A s \in Candidates :
                  HashComparable_eq(last.value.secret, s)
                      <=> s = registered[last.arg.client_id].client_secret

\* C8 witness: a client registered a second time, with another secret, is fetched
C8_Witness ==
    /\ last.op = "fetch_by_client_id"
    /\ last.exc = "none"
    /\ registered[last.arg.client_id] # None
    /\ registered[last.arg.client_id].replaces
    /\ HashComparable_eq(last.value.secret, "secret2")

C10_UnauthenticatedRedirectsToLogin ==
    [][last'.op = "authorize"
          => IF last'.arg.user = None
             THEN /\ oauth_codes' = oauth_codes
                  /\ issued' = issued
                  /\ last'.exc \in {"UserNotAuthenticated", "ClientNotFoundError",
                                    "UnboundLocalError"}
                  /\ last'.exc = "UserNotAuthenticated"
                         => /\ last'.value.status_code = 302
                            /\ last'.value.Location[1] = "login_url"
             ELSE /\ last'.exc # "UserNotAuthenticated"
                  /\ last'.exc = "none"
                         => /\ last'.value.extra = <<>>
                            /\ last'.value.user_id = last'.arg.user.id]_vars

\* C10 witness: with a code already stored, a request without a session user
\* is sent to the login page
C10_Witness ==
    /\ last.op = "authorize"
    /\ last.arg.user = None
    /\ last.exc = "UserNotAuthenticated"
    /\ oauth_codes # {}

\* C11: fetch_by_client_id of an identifier that has no client row raises
\* ClientNotFoundError and returns no Client whenever the database answers its
\* query, and an authorize request that names such an identifier is rejected
\* (with ClientNotFoundError when the query is answered) and neither issues
\* nor persists a code.
C11_UnknownClientIsRejected ==
    [][/\ \A c \in ClientIds :
              ~identifier_taken(oauth_clients, c)
                  => LET r == fetch_by_client_id(oauth_clients, c, FALSE)
                     IN  /\ r.exc = "ClientNotFoundError"
                         /\ r.value = None
                         /\ r.table = oauth_clients
       /\ (/\ last'.op = "authorize"
           /\ ~identifier_taken(oauth_clients, last'.arg.client_id))
              => /\ last'.exc \in {"ClientNotFoundError", "UnboundLocalError"}
                 /\ ~last'.rollback => last'.exc = "ClientNotFoundError"
                 /\ oauth_codes' = oauth_codes
                 /\ issued' = issued
                 /\ next_code' = next_code]_vars

\* C11 witness: with a code stored from before, an authorize request naming
\* an identifier that has no client row any more, made by a session user, is
\* rejected with ClientNotFoundError
C11_Witness ==
    /\ last.op = "authorize"
    /\ last.exc = "ClientNotFoundError"
    /\ last.arg.user # None
    /\ ~identifier_taken(oauth_clients, last.arg.client_id)
    /\ oauth_codes # {}

\* the secret request p presented is the plaintext its client is registered with
PresentedSecretMatches(p) ==
    /\ registered[req[p].client_id] # None
    /\ registered[req[p].client_id].client_secret = req[p].client_secret

\* C12: a token exchange that presents a client_secret other than the one the
\* client is registered with is rejected before its code is fetched: it never
\* gets to delete_code or save_token, whatever code it presents, and every
\* access token row is added by an exchange whose secret matched.
C12_WrongSecretGetsNoToken ==
    [][/\ \A p \in Procs :
              pc'[p] \in {"fetched", "deleted"}
                  => /\ req'[p].client_id \in ClientIds
                     /\ registered'[req'[p].client_id] # None
                     /\ registered'[req'[p].client_id].client_secret
                            = req'[p].client_secret
       /\ oauth_access_tokens' # oauth_access_tokens
              => \E p \in Procs : /\ pc[p] = "deleted"
                                  /\ pc'[p] = "idle"
                                  /\ PresentedSecretMatches(p)
       /\ (last'.op = "token" /\ last'.exc = "InvalidClient")
              => /\ oauth_access_tokens' = oauth_access_tokens
                 /\ oauth_codes' = oauth_codes
                 /\ pc' = pc]_vars

\* C12 witness: the client is registered with secret2, a stored code that has
\* not expired is presented with secret1, and the request is rejected
C12_Witness ==
    /\ last.op = "token"
    /\ last.exc = "InvalidClient"
    /\ last.arg.client_secret = "secret1"
    /\ \E c \in ClientIds : /\ registered[c] # None
                             /\ registered[c].client_secret = "secret2"
    /\ \E r \in oauth_codes : r.code = last.arg.code /\ r.expires_at >= Now
    /\ last.arg.code \notin {g[1] : g \in granted}

\* C13 (as claimed): delete_code of a code that has no row returns normally
\* and leaves the code rows as they are, and a delete_code(c) that follows a
\* delete_code(c) that returned normally leaves them as the first call left
\* them: twice is the same as once.
C13_DeleteTwiceIsDeleteOnce ==
    [][last'.op = "delete_code"
          => /\ ~code_taken(oauth_codes, last'.arg.code)
                    => (last'.exc = "none" /\ oauth_codes' = oauth_codes)
             /\ (/\ last.op = "delete_code"
                 /\ last.exc = "none"
                 /\ last.arg.code = last'.arg.code)
                    => oauth_codes' = oauth_codes]_vars

\* C14 (as claimed): a token exchange calls delete_code for its code once,
\* between fetch_by_code and save_token, and at the moment its access token
\* row is persisted the code has no row in the code store.
C14_CodeGoneWhenTokenPersisted ==
    [][\A p \in Procs :
          /\ pc'[p] = "deleted" /\ pc[p] # "deleted"
                 => /\ pc[p] = "fetched"
                    /\ last'.op = "delete_code"
                    /\ last'.arg.code = req[p].code
          /\ (/\ pc[p] = "deleted"
              /\ pc'[p] = "idle"
              /\ oauth_access_tokens' # oauth_access_tokens)
                 => /\ ~code_taken(oauth_codes, req[p].code)
                    /\ ~code_taken(oauth_codes', req[p].code)]_vars

\* the codes authorize requests have handed out
IssuedCodes == {issued[i] : i \in DOMAIN issued}

\* C15: a grant goes through its states in order.  A code is issued only to
\* an authenticated user for a client that has a row; a token exchange gets
\* past fetch_by_code only from the start of a request and only for an issued
\* code that has a row; delete_code follows only that; an access token row is
\* added only by the exchange that went through fetch and delete, and it
\* carries the client and user of the fetched code; a request that answered
\* with a token or was rejected takes no further step.
C15_GrantStatesInOrder ==
    [][/\ (last'.op = "authorize" /\ last'.exc = "none")
              => /\ identifier_taken(oauth_clients, last'.arg.client_id)
                 /\ last'.arg.user # None
                 /\ last'.value.user_id = last'.arg.user.id
                 /\ last'.value.code \in IssuedCodes'
       /\ \A p \in Procs :
              /\ (pc'[p] = "fetched" /\ pc[p] # "fetched")
                     => /\ pc[p] = "idle"
                        /\ req'[p].code \in IssuedCodes
                        /\ code_taken(oauth_codes, req'[p].code)
                        /\ req'[p].auth.code = req'[p].code
                        /\ req'[p].auth.user_id \in Users
              /\ (pc'[p] = "deleted" /\ pc[p] # "deleted") => pc[p] = "fetched"
              /\ (pc'[p] = "idle" /\ pc[p] \in {"fetched", "deleted"})
                     => (pc[p] = "deleted" /\ req'[p] = NoReq /\ last'.op = "token")
       /\ oauth_access_tokens' # oauth_access_tokens
              => \E p \in Procs :
                     /\ pc[p] = "deleted"
                     /\ pc'[p] = "idle"
                     /\ req[p].code \in IssuedCodes
                     /\ oauth_access_tokens' \ oauth_access_tokens
                            = {AccessToken(req[p].auth.client_id, last'.arg.token,
                                           req[p].auth.user_id)}
                     /\ oauth_access_tokens \subseteq oauth_access_tokens'
       /\ (last'.op \in {"authorize", "token"} /\ last'.exc # "none")
              => /\ pc' = pc
                 /\ req' = req
                 /\ oauth_access_tokens' = oauth_access_tokens
                 /\ issued' = issued]_vars

\* C15 witness: an exchange of an issued code has just persisted its token
C15_Witness ==
    /\ last.op = "token"
    /\ last.exc = "none"
    /\ ~last.rollback
    /\ last.arg.code \in IssuedCodes
    /\ \E t \in oauth_access_tokens : t.token = last.arg.token /\ t.user_id \in Users
    /\ \A p \in Procs : pc[p] = "idle"

\* C16: fetch_by_code does not look at the expiry.  For a code that has a
\* row, expired or not, a fetch whose query the database answers returns an
\* AuthorizationCode with the row's client_id, redirect_uri, user_id and
\* expires_at, the code asked for, and no scopes.
C16_ExpiredCodeIsStillFetched ==
    [][(last'.op = "fetch_by_code" /\ ~last'.rollback)
          => \A r \in oauth_codes :
                 r.code = last'.arg.code
                     => /\ last'.exc = "none"
                        /\ last'.value.code = r.code
                        /\ last'.value.expires_at = r.expires_at
                        /\ last'.value.client_id = r.client_id
                        /\ last'.value.redirect_uri = r.redirect_uri
                        /\ last'.value.user_id = r.user_id
                        /\ last'.value.scopes = <<>>]_vars

\* C16 witness: a code saved with an expires_at in the past was fetched
C16_Witness ==
    /\ last.op = "fetch_by_code"
    /\ last.exc = "none"
    /\ last.value.expires_at < Now
    /\ \E r \in oauth_codes : r.code = last.arg.code /\ r.expires_at < Now

\* C17: no call of a store method removes or changes an access token row: a
\* row that is persisted stays, with the same fields, and a call adds at most
\* one row, with a token no row had.
C17_TokenRowsOnlyGrow ==
    [][/\ oauth_access_tokens \subseteq oauth_access_tokens'
       /\ Cardinality(oauth_access_tokens' \ oauth_access_tokens) <= 1
       /\ \A t \in oauth_access_tokens' \ oauth_access_tokens :
              /\ ~token_taken(oauth_access_tokens, t.token)
              /\ last'.op = "save_token"
       /\ \A t \in Tokens :
              Cardinality({r \in oauth_access_tokens' : r.token = t}) <= 1]_vars

\* C17 witness: with two rows persisted, a third save_token, of a token that
\* has a row, was rolled back
C17_Witness ==
    /\ Cardinality(oauth_access_tokens) = MaxTokens
    /\ last.op = "save_token"
    /\ last.rollback
    /\ token_taken(oauth_access_tokens, last.arg.token)

\* C18 (as claimed): add_client is all-or-nothing for an identifier that had
\* a client: when the call is over, whether it returned or raised,
\* fetch_by_client_id finds a client for the identifier, and when the call
\* rolled back no client row was lost.
C18_AddClientKeepsAClient ==
    (last.op = "add_client" /\ last.arg.replaces)
        => /\ fetch_by_client_id(oauth_clients, last.arg.client_id, FALSE).exc = "none"
           /\ last.rollback \/ registered[last.arg.client_id] = last.arg

\* C19: fetch_by_code and fetch_by_client_id only read.  Whether the call
\* returns a value, raises its not-found error or fails with its query, the
\* code rows, the client rows and the access token rows are the same after it
\* as before it.
C19_FetchesOnlyRead ==
    [][last'.op \in {"fetch_by_code", "fetch_by_client_id"}
          => /\ oauth_codes' = oauth_codes
             /\ oauth_clients' = oauth_clients
             /\ oauth_access_tokens' = oauth_access_tokens
             /\ last'.exc \in {"none", "UnboundLocalError",
                               IF last'.op = "fetch_by_code"
                               THEN "AuthCodeNotFound" ELSE "ClientNotFoundError"}]_vars

\* C19 witness: with rows in all three tables, a stored code was fetched and
\* is still stored
C19_Witness ==
    /\ last.op = "fetch_by_code"
    /\ last.exc = "none"
    /\ code_taken(oauth_codes, last.arg.code)
    /\ oauth_clients # {}
    /\ oauth_access_tokens # {}

====
